---- MODULE Spec2Model ----
(***************************************************************************)
(* Model of the VoiceTools cog (src/voicetools/voicetools.py).             *)
(*                                                                         *)
(* State: the per-guild configuration record (two toggles, five id lists), *)
(* the host's live voice state (which member sits in which voice channel,  *)
(* the user limit of every channel), the voice-state events the cog itself *)
(* caused and that the host has still to deliver, and what the handler     *)
(* that ran last was given and emitted.                                    *)
(*                                                                         *)
(* Every command and the voice-state listener is one action: each handler  *)
(* runs from its first line to its last without another handler running    *)
(* in between.  A channel edit takes effect on the live channel object     *)
(* when the awaited call returns.                                          *)
(*                                                                         *)
(* The same handlers are also followed await by await (task for the        *)
(* listener, cmds for the list commands), where a command may complete     *)
(* while a handler is suspended and an awaited host call or store write    *)
(* may raise: SpecAwait, SpecStore and SpecRace.                           *)
(***************************************************************************)
EXTENDS Integers, Sequences, FiniteSets, TLC

\* ---- bounds of the model ------------------------------------------------
\* largest user limit a channel takes in the model
MaxLimit == 2
\* largest number of targets given to one list command
MaxTargets == 2
\* largest number of ids the five lists hold together
MaxListed == 2

\* ---- the guild of the model ----------------------------------------------
Members == {1, 2}
\* a further member of the guild, who is never the target of a command and
\* connects to voice only in SpecOrder
Bystanders == {6}
Roles == {3}
Channels == {4, 5}
\* member.roles: member 1 holds role 3, member 2 holds no role
MemberRoles(m) == IF m = 1 THEN <<3>> ELSE <<>>
\* "no channel" (before.channel / after.channel is None)
None == 0
\* the channel made by guild.create_voice_channel
TempChannel == 9

VARIABLES
    forcelimit_enabled,
    forcelimit_ignore_member_list,
    forcelimit_ignore_role_list,
    forcelimit_ignore_vc_list,
    vip_enabled,
    vip_member_list,
    vip_role_list,
    user_limit,     \* channel.user_limit of every voice channel of the guild
    voice,          \* member.voice.channel of every member (None: not connected)
    pending,        \* voice-state events caused by the cog, not yet delivered
    last,           \* what the handler that ran last was called with
    out,            \* the host calls (voice listener) or replies (list command) observed last
    hist,           \* the list command run last and the lists before it
    phase,          \* "setup": no voice event yet; "events": voice events only
                    \* since the setup; "mixed": a command ran after a voice event
    task,           \* the run of on_voice_state_update in flight, await by await
    cmds            \* the runs of list commands in flight, await by await

config == <<forcelimit_enabled, forcelimit_ignore_member_list,
            forcelimit_ignore_role_list, forcelimit_ignore_vc_list,
            vip_enabled, vip_member_list, vip_role_list>>
host == <<user_limit, voice, pending>>
vars == <<forcelimit_enabled, forcelimit_ignore_member_list,
          forcelimit_ignore_role_list, forcelimit_ignore_vc_list,
          vip_enabled, vip_member_list, vip_role_list,
          user_limit, voice, pending, last, out, hist, phase, task, cmds>>
\* the coroutines followed await by await
coroutines == <<task, cmds>>

\* ---- Python list operations ----------------------------------------------
\* x in lst
Contains(lst, x) == \E i \in 1..Len(lst) : lst[i] = x

\* lst.append(x)
ListAppend(lst, x) == Append(lst, x)

\* index of the first occurrence of x in lst (x is in lst)
FirstIndex(lst, x) == CHOOSE i \in 1..Len(lst) :
                          lst[i] = x /\ \A j \in 1..(i-1) : lst[j] /= x

\* lst.remove(x): drops the first occurrence (x is in lst)
ListRemove(lst, x) ==
    LET k == FirstIndex(lst, x)
    IN  SubSeq(lst, 1, k-1) \o SubSeq(lst, k+1, Len(lst))

\* ---- host calls and replies ------------------------------------------------
Call(op, a, b) == [op |-> op, a |-> a, b |-> b]
Send(text, about) == Call("send", text, about)

\* isinstance(x, discord.Role) / isinstance(x, discord.Member)
IsRole(x) == x \in Roles
IsMember(x) == x \in Members

\* the five lists as one record
Lists == [member |-> forcelimit_ignore_member_list,
          role   |-> forcelimit_ignore_role_list,
          vc     |-> forcelimit_ignore_vc_list,
          vipm   |-> vip_member_list,
          vipr   |-> vip_role_list]

\* no run of the voice-state listener is in flight
Idle == [pc |-> "idle", member |-> None, before |-> None, after |-> None,
         vip_member_list |-> <<>>, vip_role_list |-> <<>>,
         ignore_member_list |-> <<>>, ignore_role_list |-> <<>>,
         ignore_vc_list |-> <<>>,
         calls |-> <<>>, temp |-> FALSE, failed |-> "", expect |-> <<>>,
         interleaved |-> 0]

\* no run of a list command is in flight
NoCommand == [pc |-> "rest", kind |-> "", targets |-> <<>>,
              st |-> [member |-> <<>>, role |-> <<>>, vc |-> <<>>, msgs |-> <<>>],
              raced |-> FALSE,
              base |-> [member |-> <<>>, role |-> <<>>, vc |-> <<>>,
                        vipm |-> <<>>, vipr |-> <<>>]]

\* ---- VoiceTools.__init__ --------------------------------------------------
Init ==
    /\ forcelimit_enabled = FALSE
    /\ forcelimit_ignore_member_list = <<>>
    /\ forcelimit_ignore_role_list = <<>>
    /\ forcelimit_ignore_vc_list = <<>>
    /\ vip_enabled = FALSE
    /\ vip_member_list = <<>>
    /\ vip_role_list = <<>>
    /\ user_limit \in [Channels -> 0..MaxLimit]
    /\ voice = [m \in Members \cup Bystanders |-> None]
    /\ pending = <<>>
    /\ last = [kind |-> "init"]
    /\ out = <<>>
    /\ hist = <<>>
    /\ phase = "setup"
    /\ task = Idle
    /\ cmds = [r \in {1, 2} |-> NoCommand]

\* ---- forcelimit enable / disable, vip enable / disable ---------------------
ForcelimitEnable ==
    /\ forcelimit_enabled' = TRUE
    /\ last' = [kind |-> "command"]
    /\ UNCHANGED <<forcelimit_ignore_member_list, forcelimit_ignore_role_list,
                   forcelimit_ignore_vc_list, vip_enabled, vip_member_list,
                   vip_role_list, host>>

ForcelimitDisable ==
    /\ forcelimit_enabled' = FALSE
    /\ last' = [kind |-> "command"]
    /\ UNCHANGED <<forcelimit_ignore_member_list, forcelimit_ignore_role_list,
                   forcelimit_ignore_vc_list, vip_enabled, vip_member_list,
                   vip_role_list, host>>

VipEnable ==
    /\ vip_enabled' = TRUE
    /\ last' = [kind |-> "command"]
    /\ UNCHANGED <<forcelimit_enabled, forcelimit_ignore_member_list,
                   forcelimit_ignore_role_list, forcelimit_ignore_vc_list,
                   vip_member_list, vip_role_list, host>>

\* vip_disable that clears the flag of the other module as well
VipDisableBoth ==
    /\ vip_enabled' = FALSE
    /\ forcelimit_enabled' = FALSE
    /\ last' = [kind |-> "command"]
    /\ UNCHANGED <<forcelimit_ignore_member_list, forcelimit_ignore_role_list,
                   forcelimit_ignore_vc_list, vip_member_list, vip_role_list,
                   host>>

VipDisable ==
    /\ vip_enabled' = FALSE
    /\ last' = [kind |-> "command"]
    /\ UNCHANGED <<forcelimit_enabled, forcelimit_ignore_member_list,
                   forcelimit_ignore_role_list, forcelimit_ignore_vc_list,
                   vip_member_list, vip_role_list, host>>

\* what each toggle command sends: "... module is now enabled/disabled on this
\* server" when it changed the flag, "... is already enabled/disabled" when
\* the flag had that value
ForcelimitEnableReply ==
    IF ~forcelimit_enabled THEN <<Send("forcelimit_now_enabled", None)>>
    ELSE <<Send("forcelimit_already_enabled", None)>>
ForcelimitDisableReply ==
    IF forcelimit_enabled THEN <<Send("forcelimit_now_disabled", None)>>
    ELSE <<Send("forcelimit_already_disabled", None)>>
VipEnableReply ==
    IF ~vip_enabled THEN <<Send("vip_now_enabled", None)>>
    ELSE <<Send("vip_already_enabled", None)>>
VipDisableReply ==
    IF vip_enabled THEN <<Send("vip_now_disabled", None)>>
    ELSE <<Send("vip_already_disabled", None)>>

\* ---- forcelimit ignore / unignore ------------------------------------------
\* which working list a target of the ignore commands goes to
IgnoreListOf(ignore) ==
    IF IsRole(ignore) THEN "role"
    ELSE IF IsMember(ignore) THEN "member"
    ELSE "vc"

\* forcelimit_add without its "not in ignore_list" test
ForcelimitAddStepUnchecked(st, ignore) ==
    [st EXCEPT ![IgnoreListOf(ignore)] = ListAppend(@, ignore)]

\* one pass of the loop of forcelimit_add over the working lists
ForcelimitAddStep(st, ignore) ==
    LET ignore_list == IgnoreListOf(ignore)
    IN  IF ~Contains(st[ignore_list], ignore)
        THEN [st EXCEPT ![ignore_list] = ListAppend(@, ignore)]
        ELSE [st EXCEPT !.msgs = Append(@, Send("already", ignore))]

RECURSIVE ForcelimitAddLoop(_, _)
ForcelimitAddLoop(st, ignores) ==
    IF ignores = <<>> THEN st
    ELSE ForcelimitAddLoop(ForcelimitAddStep(st, Head(ignores)), Tail(ignores))

\* forcelimit_remove whose removal never takes effect
ForcelimitRemoveStepKeeps(st, ignore) ==
    IF Contains(st[IgnoreListOf(ignore)], ignore)
    THEN st
    ELSE [st EXCEPT !.msgs = Append(@, Send("not_on_list", ignore))]

\* one pass of the loop of forcelimit_remove over the working lists
ForcelimitRemoveStep(st, ignore) ==
    LET ignore_list == IgnoreListOf(ignore)
    IN  IF Contains(st[ignore_list], ignore)
        THEN [st EXCEPT ![ignore_list] = ListRemove(@, ignore)]
        ELSE [st EXCEPT !.msgs = Append(@, Send("not_on_list", ignore))]

RECURSIVE ForcelimitRemoveLoop(_, _)
ForcelimitRemoveLoop(st, ignores) ==
    IF ignores = <<>> THEN st
    ELSE ForcelimitRemoveLoop(ForcelimitRemoveStep(st, Head(ignores)), Tail(ignores))

\* the three lists as the ignore commands read them at their start
IgnoreWorkingLists ==
    [member |-> forcelimit_ignore_member_list,
     role   |-> forcelimit_ignore_role_list,
     vc     |-> forcelimit_ignore_vc_list,
     msgs   |-> <<>>]

\* what forcelimit_add sends: one "already on ignore list" for every target
\* found on its list, then "Ignore list updated"
ForcelimitAddReply(ignores) ==
    Append(ForcelimitAddLoop(IgnoreWorkingLists, ignores).msgs, Send("updated", 0))

\* what forcelimit_remove sends
ForcelimitRemoveReply(ignores) ==
    Append(ForcelimitRemoveLoop(IgnoreWorkingLists, ignores).msgs,
           Send("updated", 0))

ForcelimitAdd(ignores) ==
    LET st == ForcelimitAddLoop(IgnoreWorkingLists, ignores)
    IN  /\ forcelimit_ignore_member_list' = st.member
        /\ forcelimit_ignore_role_list' = st.role
        /\ forcelimit_ignore_vc_list' = st.vc
        /\ last' = [kind |-> "command"]
        /\ UNCHANGED <<forcelimit_enabled, vip_enabled, vip_member_list,
                       vip_role_list, host>>

ForcelimitRemove(ignores) ==
    LET st == ForcelimitRemoveLoop(IgnoreWorkingLists, ignores)
    IN  /\ forcelimit_ignore_member_list' = st.member
        /\ forcelimit_ignore_role_list' = st.role
        /\ forcelimit_ignore_vc_list' = st.vc
        /\ last' = [kind |-> "command"]
        /\ UNCHANGED <<forcelimit_enabled, vip_enabled, vip_member_list,
                       vip_role_list, host>>

\* ---- vip add / remove --------------------------------------------------------
\* which working list a target of the vip commands goes to
VipListOf(vip) == IF IsRole(vip) THEN "role" ELSE "member"

\* vip_add without its "not in vip_list" test
VipAddStepUnchecked(st, vip) ==
    [st EXCEPT ![VipListOf(vip)] = ListAppend(@, vip)]

VipAddStep(st, vip) ==
    LET vip_list == VipListOf(vip)
    IN  IF ~Contains(st[vip_list], vip)
        THEN [st EXCEPT ![vip_list] = ListAppend(@, vip)]
        ELSE [st EXCEPT !.msgs = Append(@, Send("already", vip))]

RECURSIVE VipAddLoop(_, _)
VipAddLoop(st, vips) ==
    IF vips = <<>> THEN st
    ELSE VipAddLoop(VipAddStep(st, Head(vips)), Tail(vips))

VipRemoveStep(st, vip) ==
    LET vip_list == VipListOf(vip)
    IN  IF Contains(st[vip_list], vip)
        THEN [st EXCEPT ![vip_list] = ListRemove(@, vip)]
        ELSE [st EXCEPT !.msgs = Append(@, Send("not_on_list", vip))]

RECURSIVE VipRemoveLoop(_, _)
VipRemoveLoop(st, vips) ==
    IF vips = <<>> THEN st
    ELSE VipRemoveLoop(VipRemoveStep(st, Head(vips)), Tail(vips))

\* the two lists as the vip commands read them at their start
VipWorkingLists ==
    [member |-> vip_member_list, role |-> vip_role_list, msgs |-> <<>>]

\* what vip_add sends: one "already on list" for every target found on its
\* list, then "VIP list updated"
VipAddReply(vips) ==
    Append(VipAddLoop(VipWorkingLists, vips).msgs, Send("updated", 0))

\* what vip_remove sends
VipRemoveReply(vips) ==
    Append(VipRemoveLoop(VipWorkingLists, vips).msgs, Send("updated", 0))

VipAdd(vips) ==
    LET st == VipAddLoop(VipWorkingLists, vips)
    IN  /\ vip_member_list' = st.member
        /\ vip_role_list' = st.role
        /\ last' = [kind |-> "command"]
        /\ UNCHANGED <<forcelimit_enabled, forcelimit_ignore_member_list,
                       forcelimit_ignore_role_list, forcelimit_ignore_vc_list,
                       vip_enabled, host>>

VipRemove(vips) ==
    LET st == VipRemoveLoop(VipWorkingLists, vips)
    IN  /\ vip_member_list' = st.member
        /\ vip_role_list' = st.role
        /\ last' = [kind |-> "command"]
        /\ UNCHANGED <<forcelimit_enabled, forcelimit_ignore_member_list,
                       forcelimit_ignore_role_list, forcelimit_ignore_vc_list,
                       vip_enabled, host>>

\* ---- forcelimit ignorelist, vip list -------------------------------------------
\* A text is a sequence of characters.  A mention ("<@id>", "<@&id>", "<#id>")
\* counts as one character of the text, and a page holds PageLength characters
\* (page_length less the eight characters pagify keeps free).  Every id on a
\* list names a member, role or channel of the guild.

\* characters a page holds in the model
PageLength == 2

Char(ch, id) == [ch |-> ch, id |-> id]

\* [m.mention for m in map(ctx.guild.get_member, lst)]
Mentions(sigil, lst) == [i \in 1..Len(lst) |-> Char(sigil, lst[i])]

\* ", ".join(mentions)
RECURSIVE Join(_)
Join(mentions) ==
    IF mentions = <<>> THEN <<>>
    ELSE IF Len(mentions) = 1 THEN mentions
    ELSE <<Head(mentions), Char(",", None), Char(" ", None)>> \o Join(Tail(mentions))

\* len(text.strip()) == 0
Blank(text) == \A i \in 1..Len(text) : text[i].ch = " "

\* list(pagify(text, page_length=1024)): the text has no line break, so it is
\* cut every PageLength characters; a cut or a rest that is blank is dropped
RECURSIVE Pagify(_)
Pagify(text) ==
    IF Len(text) > PageLength
    THEN LET to_send == SubSeq(text, 1, PageLength)
         IN  (IF ~Blank(to_send) THEN <<to_send>> ELSE <<>>)
             \o Pagify(SubSeq(text, PageLength + 1, Len(text)))
    ELSE IF ~Blank(text) THEN <<text>> ELSE <<>>

\* the text "None"
NoneText == <<Char("None", None)>>

\* the longest of the page lists
Longest(lists) ==
    CHOOSE n \in {Len(lists[k]) : k \in 1..Len(lists)} :
        \A k \in 1..Len(lists) : Len(lists[k]) <= n

\* zip_longest that leaves a missing page empty
ZipLongestUnfilled(lists, fillvalue) ==
    [i \in 1..Longest(lists) |->
        [k \in 1..Len(lists) |->
            IF i <= Len(lists[k]) THEN lists[k][i] ELSE <<>>]]

\* list(zip_longest(*lists, fillvalue=fillvalue))
ZipLongest(lists, fillvalue) ==
    [i \in 1..Longest(lists) |->
        [k \in 1..Len(lists) |->
            IF i <= Len(lists[k]) THEN lists[k][i] ELSE fillvalue]]

\* the embeds built from the pages: one field per category, "Page idx/total"
EmbedPages(title, names, pages) ==
    [idx \in 1..Len(pages) |->
        [title  |-> title,
         fields |-> [k \in 1..Len(names) |->
                        [name |-> names[k], value |-> pages[idx][k]]],
         footer |-> <<idx, Len(pages)>>]]

ForcelimitIgnorelist ==
    LET pages_members ==
            Pagify(Join(Mentions("@", forcelimit_ignore_member_list)))
        pages_roles == Pagify(Join(Mentions("@&", forcelimit_ignore_role_list)))
        pages_vcs == Pagify(Join(Mentions("#", forcelimit_ignore_vc_list)))
        pages == ZipLongest(<<pages_members, pages_roles, pages_vcs>>, NoneText)
    IN  /\ out' = IF /\ Len(pages_members) = 0
                     /\ Len(pages_roles) = 0
                     /\ Len(pages_vcs) = 0
                  THEN <<Send("ignore_list_empty", None)>>
                  ELSE <<Call("menu",
                              EmbedPages("Ignore List",
                                         <<"Members", "Roles", "Voice channels">>,
                                         pages), None)>>
        /\ last' = [kind |-> "forcelimit_ignorelist"]
        /\ UNCHANGED <<config, host>>

VipList ==
    LET pages_members == Pagify(Join(Mentions("@", vip_member_list)))
        pages_roles == Pagify(Join(Mentions("@&", vip_role_list)))
        pages == ZipLongest(<<pages_members, pages_roles>>, NoneText)
    IN  /\ out' = IF Len(pages_members) = 0 /\ Len(pages_roles) = 0
                  THEN <<Send("vip_list_empty", None)>>
                  ELSE <<Call("menu",
                              EmbedPages("VIP List", <<"Members", "Roles">>,
                                         pages), None)>>
        /\ last' = [kind |-> "vip_list"]
        /\ UNCHANGED <<config, host>>

\* ---- the voice-state listener ---------------------------------------------
\* channel.user_limit; the temporary channel is created without a limit
Limit(lim, channel) == IF channel \in DOMAIN lim THEN lim[channel] ELSE 0

\* len(channel.members)
Occupants(vc, channel) == Cardinality({m \in DOMAIN vc : vc[m] = channel})

\* [role.id for role in member.roles if role.id in vip_role_list]
VipRolesOf(member) ==
    SelectSeq(MemberRoles(member), LAMBDA r : Contains(vip_role_list, r))

\* member_on_list or role_list
IsVip(member) == Contains(vip_member_list, member) \/ VipRolesOf(member) /= <<>>

\* before.channel is not None and before.channel.user_limit != 0
VipLowers(lim, before) == before /= None /\ Limit(lim, before) /= 0

\* the test of the entered channel without "user_limit != 0"
VipRaisesUnlimited(lim, after) == after /= None /\ after \in DOMAIN lim

\* after.channel is not None and after.channel.user_limit != 0
VipRaises(lim, after) == after /= None /\ Limit(lim, after) /= 0

\* the VIP step without its test of a transition
TransitionAlways(before, after) == TRUE

\* before.channel is not after.channel
Transition(before, after) == before /= after

\* _vip_check with its two blocks in the other order: raise, then lower
VipCheckRaisesFirst(member, before, after, lim) ==
    IF before /= after /\ IsVip(member)
    THEN LET raise == after /= None /\ Limit(lim, after) /= 0
             lim1  == IF raise THEN [lim EXCEPT ![after] = @ + 1] ELSE lim
             c1    == IF raise THEN <<Call("edit", after, lim[after] + 1)>>
                               ELSE <<>>
             lower == before /= None /\ Limit(lim1, before) /= 0
             lim2  == IF lower THEN [lim1 EXCEPT ![before] = @ - 1] ELSE lim1
             c2    == IF lower THEN <<Call("edit", before, lim1[before] - 1)>>
                               ELSE <<>>
         IN  [lim |-> lim2, calls |-> c1 \o c2]
    ELSE [lim |-> lim, calls |-> <<>>]

\* _vip_check: the limits after it and the edits it made
VipCheck(member, before, after, lim) ==
    IF Transition(before, after) /\ IsVip(member)
    THEN LET lower == VipLowers(lim, before)
             lim1  == IF lower THEN [lim EXCEPT ![before] = @ - 1] ELSE lim
             c1    == IF lower THEN <<Call("edit", before, lim[before] - 1)>>
                               ELSE <<>>
             raise == VipRaises(lim1, after)
             lim2  == IF raise THEN [lim1 EXCEPT ![after] = @ + 1] ELSE lim1
             c2    == IF raise THEN <<Call("edit", after, lim1[after] + 1)>>
                               ELSE <<>>
         IN  [lim |-> lim2, calls |-> c1 \o c2]
    ELSE [lim |-> lim, calls |-> <<>>]

\* the limit test off by one: ">" taken against user_limit + 1
OverLimitByTwo(channel, lim, vc) ==
    /\ channel /= None
    /\ Limit(lim, channel) /= 0
    /\ Occupants(vc, channel) > Limit(lim, channel) + 1

\* the test of the entered channel with ">=": a channel that is just full
OverLimitOrFull(channel, lim, vc) ==
    /\ channel /= None
    /\ Limit(lim, channel) /= 0
    /\ Occupants(vc, channel) >= Limit(lim, channel)

\* channel is not None and channel.user_limit != 0
\*     and len(channel.members) > channel.user_limit
OverLimit(channel, lim, vc) ==
    /\ channel /= None
    /\ Limit(lim, channel) /= 0
    /\ Occupants(vc, channel) > Limit(lim, channel)

\* the ignore test without its channel clause
IgnoredWithoutChannel(member, channel) ==
    \/ Contains(forcelimit_ignore_member_list, member)
    \/ \E i \in 1..Len(MemberRoles(member)) :
           Contains(forcelimit_ignore_role_list, MemberRoles(member)[i])

\* the ignore test of _forcelimit_check
Ignored(member, channel) ==
    \/ Contains(forcelimit_ignore_member_list, member)
    \/ \E i \in 1..Len(MemberRoles(member)) :
           Contains(forcelimit_ignore_role_list, MemberRoles(member)[i])
    \/ Contains(forcelimit_ignore_vc_list, channel)

\* the forced disconnect without the delete of the temporary channel
ForceDisconnectNoDelete(member) ==
    <<Call("create", TempChannel, 0),
      Call("move", member, TempChannel)>>

\* create the temporary channel, move the member into it, delete it
ForceDisconnect(member) ==
    <<Call("create", TempChannel, 0),
      Call("move", member, TempChannel),
      Call("delete", TempChannel, 0)>>

\* _forcelimit_check: whether it disconnected the member, and its host calls
ForcelimitCheck(member, after, lim, vc) ==
    IF OverLimit(after, lim, vc) /\ ~Ignored(member, after)
    THEN [kick |-> TRUE, calls |-> ForceDisconnect(member)]
    ELSE [kick |-> FALSE, calls |-> <<>>]

\* on_voice_state_update running the VIP step whatever vip_enabled is
OnVoiceStateUpdateVipAlways(member, before, after, lim, vc) ==
    LET v == VipCheck(member, before, after, lim)
        f == IF forcelimit_enabled THEN ForcelimitCheck(member, after, v.lim, vc)
                                   ELSE [kick |-> FALSE, calls |-> <<>>]
    IN  [lim |-> v.lim, calls |-> v.calls \o f.calls, kick |-> f.kick]

\* on_voice_state_update with its two steps in the other order: the ForceLimit
\* step, on the limits as the event found them, then the VIP step
OnVoiceStateUpdateForcelimitFirst(member, before, after, lim, vc) ==
    LET f == IF forcelimit_enabled THEN ForcelimitCheck(member, after, lim, vc)
                                   ELSE [kick |-> FALSE, calls |-> <<>>]
        v == IF vip_enabled THEN VipCheck(member, before, after, lim)
                            ELSE [lim |-> lim, calls |-> <<>>]
    IN  [lim |-> v.lim, calls |-> f.calls \o v.calls, kick |-> f.kick]

\* on_voice_state_update: the VIP step, then the ForceLimit step
OnVoiceStateUpdate(member, before, after, lim, vc) ==
    LET v == IF vip_enabled THEN VipCheck(member, before, after, lim)
                            ELSE [lim |-> lim, calls |-> <<>>]
        f == IF forcelimit_enabled THEN ForcelimitCheck(member, after, v.lim, vc)
                                   ELSE [kick |-> FALSE, calls |-> <<>>]
    IN  [lim |-> v.lim, calls |-> v.calls \o f.calls, kick |-> f.kick]

\* the events the host sends for a forced disconnect: into the temporary
\* channel, then out of it when it is deleted
FollowUps(member, channel) ==
    <<[member |-> member, before |-> channel, after |-> TempChannel],
      [member |-> member, before |-> TempChannel, after |-> None]>>

\* the listener run on one event, given the voice state the event left
Handle(member, before, after, vc, rest) ==
    LET r == OnVoiceStateUpdate(member, before, after, user_limit, vc)
    IN  /\ \A c \in Channels : r.lim[c] <= MaxLimit
        /\ user_limit' = r.lim
        /\ voice' = IF r.kick THEN [vc EXCEPT ![member] = None] ELSE vc
        /\ pending' = IF r.kick THEN rest \o FollowUps(member, after) ELSE rest
        /\ out' = r.calls
        /\ last' = [kind |-> "voice", member |-> member, before |-> before,
                    after |-> after, limits |-> user_limit,
                    occupants |-> Occupants(vc, after)]
        /\ UNCHANGED config

\* a member joins, leaves, moves, or changes mute/deafen in place; the host
\* sends the events of a forced disconnect before the next event of the guild
VoiceStateUpdate(member, after) ==
    /\ pending = <<>>
    /\ after \in Channels \cup {None}
    /\ voice[member] /= None \/ after /= None
    /\ Handle(member, voice[member], after, [voice EXCEPT ![member] = after],
              pending)

\* the host delivers an event the cog caused
Deliver ==
    /\ pending /= <<>>
    /\ Handle(Head(pending).member, Head(pending).before, Head(pending).after,
              voice, Tail(pending))

\* ---- the voice-state listener, await by await --------------------------------
\* One run of on_voice_state_update is followed from await to await: every
\* configuration read, every channel edit and every call of the forced
\* disconnect is a point where the run is suspended and a command may run.
\* task.pc names the await the run is suspended at.  A host call is issued
\* when the run reaches it and takes effect, or raises, when the run resumes.
\* The local lists are kept from their read to their last use.  One run is in
\* flight at a time: the host's next event is dispatched when the run ended.

\* largest number of commands that complete while one run is in flight
MaxInterleaved == 1

\* member_on_list or role_list, over the lists the run has read
VipOnLists(member, member_list, role_list) ==
    \/ Contains(member_list, member)
    \/ SelectSeq(MemberRoles(member), LAMBDA r : Contains(role_list, r)) /= <<>>

\* the ignore test of _forcelimit_check, over the lists the run has read
IgnoredOnLists(member, channel, member_list, role_list, vc_list) ==
    \/ Contains(member_list, member)
    \/ \E i \in 1..Len(MemberRoles(member)) :
           Contains(role_list, MemberRoles(member)[i])
    \/ Contains(vc_list, channel)

\* the run issues a host call and is suspended until it returns
Issue(t, pc, call) == [t EXCEPT !.pc = pc, !.calls = Append(@, call)]

\* the call the run is waiting for
Awaited(t) == t.calls[Len(t.calls)]

\* the awaited call raised: nothing catches the exception, the run ends with it
Raise(t) == [t EXCEPT !.pc = "error", !.failed = Awaited(t).op]

\* the host dispatches an event: the run starts and is suspended at its first
\* configuration read; expect is what the listener emits when it runs on the
\* configuration of this moment without being suspended
Started(member, before, after, vc) ==
    [Idle EXCEPT !.pc = "vip_enabled", !.member = member, !.before = before,
                 !.after = after,
                 !.expect = OnVoiceStateUpdate(member, before, after,
                                               user_limit, vc).calls]

\* (a channel whose limit is MaxLimit is not entered: the VIP step of the run
\* could raise it above the bound of the model)
VoiceEventDispatched(member, after) ==
    /\ task.pc = "idle"
    /\ pending = <<>>
    /\ after \in Channels \cup {None}
    /\ voice[member] /= None \/ after /= None
    /\ Limit(user_limit, after) < MaxLimit
    /\ voice' = [voice EXCEPT ![member] = after]
    /\ task' = Started(member, voice[member], after, voice')
    /\ UNCHANGED <<config, user_limit, pending>>

PendingDispatched ==
    /\ task.pc = "idle"
    /\ pending /= <<>>
    /\ task' = Started(Head(pending).member, Head(pending).before,
                       Head(pending).after, voice)
    /\ pending' = Tail(pending)
    /\ UNCHANGED <<config, user_limit, voice>>

\* if await self.config.guild(member.guild).vip_enabled():
AwaitVipEnabled ==
    /\ task.pc = "vip_enabled"
    /\ task' = [task EXCEPT !.pc = IF vip_enabled THEN "vip_member_list"
                                   ELSE "forcelimit_enabled"]
    /\ UNCHANGED <<config, host>>

\* vip_member_list = await ....vip_member_list()
AwaitVipMemberList ==
    /\ task.pc = "vip_member_list"
    /\ task' = [task EXCEPT !.pc = "vip_role_list",
                            !.vip_member_list = vip_member_list]
    /\ UNCHANGED <<config, host>>

\* the second block of _vip_check: the entered channel
VipRaiseOrLeave(t) ==
    IF VipRaises(user_limit', t.after)
    THEN Issue(t, "edit_after", Call("edit", t.after, user_limit'[t.after] + 1))
    ELSE [t EXCEPT !.pc = "forcelimit_enabled"]

\* vip_role_list = await ....vip_role_list(), then the tests of _vip_check up
\* to its first edit
AwaitVipRoleList ==
    /\ task.pc = "vip_role_list"
    /\ UNCHANGED <<config, host>>
    /\ LET t == [task EXCEPT !.vip_member_list = <<>>]
       IN  task' =
             IF /\ Transition(task.before, task.after)
                /\ VipOnLists(task.member, task.vip_member_list, vip_role_list)
             THEN IF VipLowers(user_limit, task.before)
                  THEN Issue(t, "edit_before",
                             Call("edit", task.before,
                                  user_limit[task.before] - 1))
                  ELSE VipRaiseOrLeave(t)
             ELSE [t EXCEPT !.pc = "forcelimit_enabled"]

\* await before.channel.edit(...) returns or raises
AwaitEditBefore(ok) ==
    /\ task.pc = "edit_before"
    /\ UNCHANGED <<config, voice, pending>>
    /\ IF ok
       THEN /\ user_limit' = [user_limit EXCEPT ![Awaited(task).a] = Awaited(task).b]
            /\ task' = VipRaiseOrLeave(task)
       ELSE /\ UNCHANGED user_limit
            /\ task' = Raise(task)

\* await after.channel.edit(...) returns or raises
AwaitEditAfter(ok) ==
    /\ task.pc = "edit_after"
    /\ UNCHANGED <<config, voice, pending>>
    /\ IF ok
       THEN /\ user_limit' = [user_limit EXCEPT ![Awaited(task).a] = Awaited(task).b]
            /\ task' = [task EXCEPT !.pc = "forcelimit_enabled"]
       ELSE /\ UNCHANGED user_limit
            /\ task' = Raise(task)

\* if await self.config.guild(member.guild).forcelimit_enabled():
AwaitForcelimitEnabled ==
    /\ task.pc = "forcelimit_enabled"
    /\ task' = [task EXCEPT !.pc = IF forcelimit_enabled THEN "ignore_member_list"
                                   ELSE "done"]
    /\ UNCHANGED <<config, host>>

\* ignore_member_list = await guild_conf.forcelimit_ignore_member_list()
AwaitIgnoreMemberList ==
    /\ task.pc = "ignore_member_list"
    /\ task' = [task EXCEPT !.pc = "ignore_role_list",
                            !.ignore_member_list = forcelimit_ignore_member_list]
    /\ UNCHANGED <<config, host>>

\* ignore_role_list = await guild_conf.forcelimit_ignore_role_list()
AwaitIgnoreRoleList ==
    /\ task.pc = "ignore_role_list"
    /\ task' = [task EXCEPT !.pc = "ignore_vc_list",
                            !.ignore_role_list = forcelimit_ignore_role_list]
    /\ UNCHANGED <<config, host>>

\* ignore_vc_list = await guild_conf.forcelimit_ignore_vc_list(), then the
\* tests of _forcelimit_check up to the create of the temporary channel
AwaitIgnoreVcList ==
    /\ task.pc = "ignore_vc_list"
    /\ UNCHANGED <<config, host>>
    /\ LET t == [task EXCEPT !.ignore_member_list = <<>>,
                             !.ignore_role_list = <<>>]
       IN  task' =
             IF /\ OverLimit(task.after, user_limit, voice)
                /\ ~IgnoredOnLists(task.member, task.after,
                                   task.ignore_member_list,
                                   task.ignore_role_list,
                                   forcelimit_ignore_vc_list)
             THEN Issue(t, "create", Call("create", TempChannel, 0))
             ELSE [t EXCEPT !.pc = "done"]

\* vc = await guild.create_voice_channel(...) returns: the channel exists
AwaitCreate ==
    /\ task.pc = "create"
    /\ task' = [Issue(task, "move", Call("move", task.member, TempChannel))
                  EXCEPT !.temp = TRUE]
    /\ UNCHANGED <<config, host>>

\* await member.move_to(vc) returns or raises
AwaitMove(ok) ==
    /\ task.pc = "move"
    /\ UNCHANGED <<config, user_limit>>
    /\ IF ok
       THEN /\ voice' = [voice EXCEPT ![task.member] = TempChannel]
            /\ pending' = Append(pending, FollowUps(task.member, task.after)[1])
            /\ task' = Issue(task, "delete", Call("delete", TempChannel, 0))
       ELSE /\ UNCHANGED <<voice, pending>>
            /\ task' = Raise(task)

\* await vc.delete() returns or raises
AwaitDelete(ok) ==
    /\ task.pc = "delete"
    /\ UNCHANGED <<config, user_limit>>
    /\ IF ok
       THEN /\ voice' = [m \in DOMAIN voice |->
                           IF voice[m] = TempChannel THEN None ELSE voice[m]]
            /\ pending' = Append(pending, FollowUps(task.member, task.after)[2])
            /\ task' = [task EXCEPT !.pc = "done", !.temp = FALSE]
       ELSE /\ UNCHANGED <<voice, pending>>
            /\ task' = Raise(task)

\* the run has ended, by its last line or by an exception
Ended == task.pc \in {"done", "error"}

Return ==
    /\ Ended
    /\ task' = Idle
    /\ UNCHANGED <<config, host>>

\* ---- the list commands, await by await ---------------------------------------
\* A run of forcelimit_add, forcelimit_remove, vip_add or vip_remove is
\* followed from await to await: it reads its lists from the store one by one
\* into working lists, runs its loop over the working lists, and writes the
\* working lists back one by one.  Every read returns a copy of what the store
\* holds when the run resumes, and a write replaces what the store holds.
\* cmds[r].pc names the await the run is suspended at.

\* the command runs followed at the same time
Racers == {1, 2}

IsIgnoreCommand(kind) == kind \in {"forcelimit_add", "forcelimit_remove"}

\* the loop of a command over its working lists
LoopOf(kind, st, targets) ==
    CASE kind = "forcelimit_add"    -> ForcelimitAddLoop(st, targets)
      [] kind = "forcelimit_remove" -> ForcelimitRemoveLoop(st, targets)
      [] kind = "vip_add"           -> VipAddLoop(st, targets)
      [] kind = "vip_remove"        -> VipRemoveLoop(st, targets)

\* the lists a command leaves when it runs from its first line to its last on
\* the lists L with nothing in between
Applied(kind, targets, L) ==
    IF IsIgnoreCommand(kind)
    THEN LET st == LoopOf(kind, [member |-> L.member, role |-> L.role,
                                 vc |-> L.vc, msgs |-> <<>>], targets)
         IN  [L EXCEPT !.member = st.member, !.role = st.role, !.vc = st.vc]
    ELSE LET st == LoopOf(kind, [member |-> L.vipm, role |-> L.vipr,
                                 vc |-> <<>>, msgs |-> <<>>], targets)
         IN  [L EXCEPT !.vipm = st.member, !.vipr = st.role]

\* a run of a list command is suspended at one of its awaits
InFlight(c) == c.pc \notin {"rest", "done", "failed"}

\* the command is invoked: the run is suspended at its first read.  base is
\* what the store held when the earliest run still in flight was invoked.
CommandStarted(r, kind, targets) ==
    /\ cmds[r].pc = "rest"
    /\ LET others == {o \in Racers \ {r} : InFlight(cmds[o])}
       IN  cmds' = [cmds EXCEPT ![r] =
                      [pc |-> "read_member", kind |-> kind, targets |-> targets,
                       st |-> NoCommand.st, raced |-> others /= {},
                       base |-> IF others = {} THEN Lists
                                ELSE cmds[CHOOSE o \in others : TRUE].base]]
    /\ UNCHANGED <<config, host>>

\* ignore_member_list = await ....forcelimit_ignore_member_list()
\* vip_member_list = await ....vip_member_list()
AwaitReadMemberList(r) ==
    /\ cmds[r].pc = "read_member"
    /\ cmds' = [cmds EXCEPT ![r].pc = "read_role",
                            ![r].st.member =
                                IF IsIgnoreCommand(cmds[r].kind)
                                THEN forcelimit_ignore_member_list
                                ELSE vip_member_list]
    /\ UNCHANGED <<config, host>>

\* ignore_role_list = await ....forcelimit_ignore_role_list()
\* vip_role_list = await ....vip_role_list(), then the loop of the vip command
AwaitReadRoleList(r) ==
    /\ cmds[r].pc = "read_role"
    /\ LET c == cmds[r]
       IN  cmds' = [cmds EXCEPT ![r] =
             IF IsIgnoreCommand(c.kind)
             THEN [c EXCEPT !.pc = "read_vc",
                            !.st.role = forcelimit_ignore_role_list]
             ELSE [c EXCEPT !.pc = "set_member",
                            !.st = LoopOf(c.kind,
                                          [c.st EXCEPT !.role = vip_role_list],
                                          c.targets)]]
    /\ UNCHANGED <<config, host>>

\* ignore_vc_list = await ....forcelimit_ignore_vc_list(), then the loop
AwaitReadVcList(r) ==
    /\ cmds[r].pc = "read_vc"
    /\ LET c == cmds[r]
       IN  cmds' = [cmds EXCEPT ![r] =
             [c EXCEPT !.pc = "set_member",
                       !.st = LoopOf(c.kind,
                                     [c.st EXCEPT !.vc = forcelimit_ignore_vc_list],
                                     c.targets)]]
    /\ UNCHANGED <<config, host>>

\* the awaited write raised: the run ends with the exception
WriteFailed(r) == cmds' = [cmds EXCEPT ![r].pc = "failed"]

\* await ....forcelimit_ignore_member_list.set(ignore_member_list)
\* await ....vip_member_list.set(vip_member_list)
AwaitSetMemberList(r, ok) ==
    /\ cmds[r].pc = "set_member"
    /\ UNCHANGED <<forcelimit_enabled, vip_enabled, forcelimit_ignore_role_list,
                   forcelimit_ignore_vc_list, vip_role_list, host>>
    /\ IF ok
       THEN /\ cmds' = [cmds EXCEPT ![r].pc = "set_role"]
            /\ IF IsIgnoreCommand(cmds[r].kind)
               THEN /\ forcelimit_ignore_member_list' = cmds[r].st.member
                    /\ UNCHANGED vip_member_list
               ELSE /\ vip_member_list' = cmds[r].st.member
                    /\ UNCHANGED forcelimit_ignore_member_list
       ELSE /\ WriteFailed(r)
            /\ UNCHANGED <<forcelimit_ignore_member_list, vip_member_list>>

\* await ....forcelimit_ignore_role_list.set(ignore_role_list)
\* await ....vip_role_list.set(vip_role_list), then "VIP list updated"
AwaitSetRoleList(r, ok) ==
    /\ cmds[r].pc = "set_role"
    /\ UNCHANGED <<forcelimit_enabled, vip_enabled, forcelimit_ignore_member_list,
                   forcelimit_ignore_vc_list, vip_member_list, host>>
    /\ IF ok
       THEN IF IsIgnoreCommand(cmds[r].kind)
            THEN /\ cmds' = [cmds EXCEPT ![r].pc = "set_vc"]
                 /\ forcelimit_ignore_role_list' = cmds[r].st.role
                 /\ UNCHANGED vip_role_list
            ELSE /\ cmds' = [cmds EXCEPT ![r].pc = "done",
                                         ![r].st.msgs = Append(@, Send("updated", 0))]
                 /\ vip_role_list' = cmds[r].st.role
                 /\ UNCHANGED forcelimit_ignore_role_list
       ELSE /\ WriteFailed(r)
            /\ UNCHANGED <<forcelimit_ignore_role_list, vip_role_list>>

\* await ....forcelimit_ignore_vc_list.set(ignore_vc_list), then
\* "Ignore list updated"
AwaitSetVcList(r, ok) ==
    /\ cmds[r].pc = "set_vc"
    /\ UNCHANGED <<forcelimit_enabled, vip_enabled, forcelimit_ignore_member_list,
                   forcelimit_ignore_role_list, vip_member_list, vip_role_list,
                   host>>
    /\ IF ok
       THEN /\ cmds' = [cmds EXCEPT ![r].pc = "done",
                                    ![r].st.msgs = Append(@, Send("updated", 0))]
            /\ forcelimit_ignore_vc_list' = cmds[r].st.vc
       ELSE /\ WriteFailed(r)
            /\ UNCHANGED forcelimit_ignore_vc_list

\* the runs have ended and are forgotten
CommandsReturned ==
    /\ \E r \in Racers : cmds[r].pc /= "rest"
    /\ \A r \in Racers : ~InFlight(cmds[r])
    /\ cmds' = [r \in Racers |-> NoCommand]
    /\ UNCHANGED <<config, host>>

\* ---- specifications ----------------------------------------------------------
IgnoreTargets == Members \cup Roles \cup Channels
VipTargets == Members \cup Roles

\* the target lists of one invocation of a list command
TargetSeqs(S) == UNION {[1..n -> S] : n \in 0..MaxTargets}

\* how many ids the five lists hold
Listed == Len(forcelimit_ignore_member_list) + Len(forcelimit_ignore_role_list)
          + Len(forcelimit_ignore_vc_list) + Len(vip_member_list)
          + Len(vip_role_list)

\* The cog in its guild: the commands, the voice events of the members and
\* the delivery of the events the cog caused.  A list command with several
\* targets changes the lists as the same targets given one command at a time
\* do, so the commands are given one target here, and the lists hold at most
\* MaxListed ids.
\* a command or an event whose reply and place in the run are not recorded
CommandRun == out' = <<>> /\ UNCHANGED <<hist, phase, coroutines>>
EventRun == UNCHANGED <<hist, phase, coroutines>>

Next ==
    \/ ForcelimitEnable /\ CommandRun
    \/ ForcelimitDisable /\ CommandRun
    \/ VipEnable /\ CommandRun
    \/ VipDisable /\ CommandRun
    \/ \E x \in IgnoreTargets :
           ForcelimitAdd(<<x>>) /\ Listed' <= MaxListed /\ CommandRun
    \/ \E x \in IgnoreTargets : ForcelimitRemove(<<x>>) /\ CommandRun
    \/ \E x \in VipTargets : VipAdd(<<x>>) /\ Listed' <= MaxListed /\ CommandRun
    \/ \E x \in VipTargets : VipRemove(<<x>>) /\ CommandRun
    \/ \E m \in Members, a \in Channels \cup {None} :
           VoiceStateUpdate(m, a) /\ EventRun
    \/ Deliver /\ EventRun

Spec == Init /\ [][Next]_vars

\* The cog with its ignore lists left empty: the toggles, the vip commands,
\* the voice events and their delivery.  phase tells the runs in which the
\* configuration was set up first and only voice events followed.
CommandPhase ==
    /\ out' = <<>>
    /\ phase' = (IF phase = "setup" THEN "setup" ELSE "mixed")
    /\ UNCHANGED <<hist, coroutines>>
EventPhase ==
    /\ phase' = (IF phase = "setup" THEN "events" ELSE phase)
    /\ UNCHANGED <<hist, coroutines>>

NextVip ==
    \/ ForcelimitEnable /\ CommandPhase
    \/ ForcelimitDisable /\ CommandPhase
    \/ VipEnable /\ CommandPhase
    \/ VipDisable /\ CommandPhase
    \/ \E x \in VipTargets : VipAdd(<<x>>) /\ Listed' <= MaxListed /\ CommandPhase
    \/ \E x \in VipTargets : VipRemove(<<x>>) /\ CommandPhase
    \/ \E m \in Members, a \in Channels \cup {None} :
           VoiceStateUpdate(m, a) /\ EventPhase
    \/ Deliver /\ EventPhase

SpecVip == Init /\ [][NextVip]_vars

\* The list commands alone, with any number of targets up to MaxTargets.  hist
\* records a command given one target: the lists before it and, when it is a
\* remove that directly follows an add of the same target, the lists before
\* that add.
IsAdd(kind) == kind \in {"forcelimit_add", "vip_add"}
RemoveOf(kind) == IF kind = "forcelimit_add" THEN "forcelimit_remove"
                  ELSE "vip_remove"
Recorded(kind, targets) ==
    IF Len(targets) /= 1 THEN hist' = <<>>
    ELSE LET undoes == /\ hist /= <<>>
                       /\ IsAdd(hist[1].kind)
                       /\ kind = RemoveOf(hist[1].kind)
                       /\ targets[1] = hist[1].target
         IN  hist' = <<[kind |-> kind, target |-> targets[1], pre |-> Lists,
                        undoes |-> undoes,
                        start |-> IF undoes THEN hist[1].pre ELSE Lists]>>

NextLists ==
    \/ \E t \in TargetSeqs(IgnoreTargets) :
           /\ ForcelimitAdd(t) /\ Listed' <= MaxListed
           /\ out' = ForcelimitAddReply(t)
           /\ Recorded("forcelimit_add", t) /\ UNCHANGED <<phase, coroutines>>
    \/ \E t \in TargetSeqs(IgnoreTargets) :
           /\ ForcelimitRemove(t)
           /\ out' = ForcelimitRemoveReply(t)
           /\ Recorded("forcelimit_remove", t) /\ UNCHANGED <<phase, coroutines>>
    \/ \E t \in TargetSeqs(VipTargets) :
           /\ VipAdd(t) /\ Listed' <= MaxListed
           /\ out' = VipAddReply(t)
           /\ Recorded("vip_add", t) /\ UNCHANGED <<phase, coroutines>>
    \/ \E t \in TargetSeqs(VipTargets) :
           /\ VipRemove(t)
           /\ out' = VipRemoveReply(t)
           /\ Recorded("vip_remove", t) /\ UNCHANGED <<phase, coroutines>>

InitLists == Init /\ \A c \in Channels : user_limit[c] = 0

SpecLists == InitLists /\ [][NextLists]_vars

\* The toggles among everything else the cog does: the four toggle commands
\* with their replies, the list commands given one target (the lists holding
\* fewer than MaxListed ids), the voice events and their delivery.  hist
\* records which handler ran last and the value of both toggles before it ran.
Ran(kind) ==
    /\ hist' = <<[kind |-> kind, forcelimit_enabled |-> forcelimit_enabled,
                  vip_enabled |-> vip_enabled]>>
    /\ UNCHANGED <<phase, coroutines>>

NextToggles ==
    \/ ForcelimitEnable /\ out' = ForcelimitEnableReply /\ Ran("forcelimit_enable")
    \/ ForcelimitDisable /\ out' = ForcelimitDisableReply /\ Ran("forcelimit_disable")
    \/ VipEnable /\ out' = VipEnableReply /\ Ran("vip_enable")
    \/ VipDisable /\ out' = VipDisableReply /\ Ran("vip_disable")
    \/ \E x \in IgnoreTargets :
           /\ ForcelimitAdd(<<x>>) /\ Listed' < MaxListed
           /\ out' = <<>> /\ Ran("list")
    \/ \E x \in IgnoreTargets :
           ForcelimitRemove(<<x>>) /\ out' = <<>> /\ Ran("list")
    \/ \E x \in VipTargets :
           VipAdd(<<x>>) /\ Listed' < MaxListed /\ out' = <<>> /\ Ran("list")
    \/ \E x \in VipTargets : VipRemove(<<x>>) /\ out' = <<>> /\ Ran("list")
    \/ \E m \in Members, a \in Channels \cup {None} :
           VoiceStateUpdate(m, a) /\ Ran("voice")
    \/ Deliver /\ Ran("voice")

\* the guild's channels start with one and the same user limit
InitToggles == Init /\ \E n \in 0..MaxLimit : user_limit = [c \in Channels |-> n]

SpecToggles == InitToggles /\ [][NextToggles]_vars

\* The listener await by await, with the ignore lists left empty: the toggles
\* and the vip commands (the lists holding fewer than MaxListed ids) run
\* between the events and, at most MaxInterleaved of them, while a run of the
\* listener is suspended; every channel edit, move and delete either returns
\* or raises.
Interleaved ==
    /\ ~Ended
    /\ task.interleaved < MaxInterleaved
    /\ task' = IF task.pc = "idle" THEN task
               ELSE [task EXCEPT !.interleaved = @ + 1]
    /\ out' = <<>>
    /\ UNCHANGED <<hist, phase, cmds>>
Stepped == UNCHANGED <<last, out, hist, phase, cmds>>

NextAwait ==
    \/ ForcelimitEnable /\ Interleaved
    \/ ForcelimitDisable /\ Interleaved
    \/ VipEnable /\ Interleaved
    \/ VipDisable /\ Interleaved
    \/ \E x \in VipTargets : VipAdd(<<x>>) /\ Listed' < MaxListed /\ Interleaved
    \/ \E x \in VipTargets : VipRemove(<<x>>) /\ Interleaved
    \/ \E m \in Members, a \in Channels \cup {None} :
           VoiceEventDispatched(m, a) /\ Stepped
    \/ PendingDispatched /\ Stepped
    \/ AwaitVipEnabled /\ Stepped
    \/ AwaitVipMemberList /\ Stepped
    \/ AwaitVipRoleList /\ Stepped
    \/ \E ok \in BOOLEAN : AwaitEditBefore(ok) /\ Stepped
    \/ \E ok \in BOOLEAN : AwaitEditAfter(ok) /\ Stepped
    \/ AwaitForcelimitEnabled /\ Stepped
    \/ AwaitIgnoreMemberList /\ Stepped
    \/ AwaitIgnoreRoleList /\ Stepped
    \/ AwaitIgnoreVcList /\ Stepped
    \/ AwaitCreate /\ Stepped
    \/ \E ok \in BOOLEAN : AwaitMove(ok) /\ Stepped
    \/ \E ok \in BOOLEAN : AwaitDelete(ok) /\ Stepped
    \/ Return /\ Stepped

SpecAwait == Init /\ [][NextAwait]_vars

\* The same with the scheduling of the event loop: a run of the listener that
\* is suspended is resumed when the call it awaits has returned or raised, a
\* run that ended returns, and the host dispatches the events it has queued.
\* Nothing obliges a member to send a voice event or an administrator to give
\* a command.
ListenerStep ==
    /\ \/ PendingDispatched
       \/ AwaitVipEnabled
       \/ AwaitVipMemberList
       \/ AwaitVipRoleList
       \/ \E ok \in BOOLEAN : AwaitEditBefore(ok)
       \/ \E ok \in BOOLEAN : AwaitEditAfter(ok)
       \/ AwaitForcelimitEnabled
       \/ AwaitIgnoreMemberList
       \/ AwaitIgnoreRoleList
       \/ AwaitIgnoreVcList
       \/ AwaitCreate
       \/ \E ok \in BOOLEAN : AwaitMove(ok)
       \/ \E ok \in BOOLEAN : AwaitDelete(ok)
       \/ Return
    /\ Stepped

SpecAwaitFair == Init /\ [][NextAwait]_vars /\ WF_vars(ListenerStep)

\* The list commands await by await.  ListCommands are the invocations with
\* one target.  A command is invoked while the lists hold fewer than MaxListed
\* ids.
ListCommands ==
    ({"forcelimit_add", "forcelimit_remove"} \X {<<x>> : x \in IgnoreTargets})
    \cup ({"vip_add", "vip_remove"} \X {<<x>> : x \in VipTargets})
CommandStepped == UNCHANGED <<last, out, hist, phase, task>>

\* One command at a time, whose writes to the store either succeed or raise.
NextStore ==
    \/ \E c \in ListCommands :
           CommandStarted(1, c[1], c[2]) /\ Listed < MaxListed /\ CommandStepped
    \/ AwaitReadMemberList(1) /\ CommandStepped
    \/ AwaitReadRoleList(1) /\ CommandStepped
    \/ AwaitReadVcList(1) /\ CommandStepped
    \/ \E ok \in BOOLEAN : AwaitSetMemberList(1, ok) /\ CommandStepped
    \/ \E ok \in BOOLEAN : AwaitSetRoleList(1, ok) /\ CommandStepped
    \/ \E ok \in BOOLEAN : AwaitSetVcList(1, ok) /\ CommandStepped
    \/ CommandsReturned /\ CommandStepped

InitStore == Init /\ \A c \in Channels : user_limit[c] = 0

SpecStore == InitStore /\ [][NextStore]_vars

\* Two commands of the same group (ignore or vip) whose awaits interleave;
\* the store is available.  The second command is invoked while the first is
\* in flight or after it ended.
NextRace ==
    \/ \E c \in ListCommands :
           /\ CommandStarted(1, c[1], c[2])
           /\ cmds[2].pc = "rest"
           /\ Listed < MaxListed /\ CommandStepped
    \/ \E c \in ListCommands :
           /\ CommandStarted(2, c[1], c[2])
           /\ cmds[1].pc /= "rest"
           /\ IsIgnoreCommand(c[1]) = IsIgnoreCommand(cmds[1].kind)
           /\ CommandStepped
    \/ \E r \in Racers : AwaitReadMemberList(r) /\ CommandStepped
    \/ \E r \in Racers : AwaitReadRoleList(r) /\ CommandStepped
    \/ \E r \in Racers : AwaitReadVcList(r) /\ CommandStepped
    \/ \E r \in Racers : AwaitSetMemberList(r, TRUE) /\ CommandStepped
    \/ \E r \in Racers : AwaitSetRoleList(r, TRUE) /\ CommandStepped
    \/ \E r \in Racers : AwaitSetVcList(r, TRUE) /\ CommandStepped
    \/ CommandsReturned /\ CommandStepped

SpecRace == InitStore /\ [][NextRace]_vars

\* The two listing commands among the list commands that fill and empty the
\* lists (given one target, the lists holding at most MaxListed ids).
NextListing ==
    \/ \E x \in IgnoreTargets :
           ForcelimitAdd(<<x>>) /\ Listed' <= MaxListed /\ CommandRun
    \/ \E x \in IgnoreTargets : ForcelimitRemove(<<x>>) /\ CommandRun
    \/ \E x \in VipTargets : VipAdd(<<x>>) /\ Listed' <= MaxListed /\ CommandRun
    \/ \E x \in VipTargets : VipRemove(<<x>>) /\ CommandRun
    \/ ForcelimitIgnorelist /\ EventRun
    \/ VipList /\ EventRun

SpecListing == InitLists /\ [][NextListing]_vars

\* The order of the two steps of the listener: the toggles, the vip commands
\* (the lists holding fewer than MaxListed ids) and the voice events of three
\* members, so that a channel can hold two members more than its limit.
NextOrder ==
    \/ ForcelimitEnable /\ CommandRun
    \/ ForcelimitDisable /\ CommandRun
    \/ VipEnable /\ CommandRun
    \/ VipDisable /\ CommandRun
    \/ \E x \in VipTargets : VipAdd(<<x>>) /\ Listed' < MaxListed /\ CommandRun
    \/ \E x \in VipTargets : VipRemove(<<x>>) /\ CommandRun
    \/ \E m \in Members \cup Bystanders, a \in Channels \cup {None} :
           VoiceStateUpdate(m, a) /\ EventRun
    \/ Deliver /\ EventRun

SpecOrder == Init /\ [][NextOrder]_vars

\* ---- what the claims speak of -----------------------------------------------
\* the ids on a list
Elems(lst) == {lst[i] : i \in 1..Len(lst)}

\* the handler that ran last was the voice-state listener
VoiceHandled == last.kind = "voice"

\* the create / move / delete calls and the user-limit edits it made, in order
DisconnectCalls == SelectSeq(out, LAMBDA c : c.op \in {"create", "move", "delete"})
CapacityCalls == SelectSeq(out, LAMBDA c : c.op = "edit")

\* the capacity of a channel before the event was handled and as the
\* ForceLimit step read it (after the VIP step of the same event)
CapacityBefore(channel) ==
    IF channel \in Channels THEN last.limits[channel] ELSE 0
CapacityRead(channel) ==
    IF channel \in Channels THEN user_limit[channel] ELSE 0

\* the member of the event is on an ignore list, by id, by a role or by the
\* destination channel; is a VIP, by id or by a role
OnIgnoreList ==
    \/ last.member \in Elems(forcelimit_ignore_member_list)
    \/ Elems(MemberRoles(last.member)) \cap Elems(forcelimit_ignore_role_list) /= {}
    \/ last.after \in Elems(forcelimit_ignore_vc_list)
OnVipList ==
    \/ last.member \in Elems(vip_member_list)
    \/ Elems(MemberRoles(last.member)) \cap Elems(vip_role_list) /= {}

\* the destination channel exists, is limited, and holds more members after
\* the join than its capacity
DestinationOverCapacity ==
    /\ last.after /= None
    /\ CapacityRead(last.after) /= 0
    /\ last.occupants > CapacityRead(last.after)

\* C1: a voice-state event handled with ForceLimit enabled, whose destination
\* channel exists, has a non-zero capacity (as the ForceLimit step reads it)
\* and holds more members than that, and where neither the member, a role of
\* the member nor the channel is ignored, makes exactly one create of the
\* temporary channel, one move of that member into it and one delete of it.
C1_ForceDisconnectEmitted ==
    (VoiceHandled /\ forcelimit_enabled /\ DestinationOverCapacity /\ ~OnIgnoreList)
        => DisconnectCalls = <<[op |-> "create", a |-> TempChannel, b |-> 0],
                               [op |-> "move", a |-> last.member, b |-> TempChannel],
                               [op |-> "delete", a |-> TempChannel, b |-> 0]>>

C1_Witness ==
    /\ VoiceHandled /\ forcelimit_enabled /\ DestinationOverCapacity /\ ~OnIgnoreList
    /\ last.before /= last.after
    /\ Len(DisconnectCalls) = 3
    /\ voice[last.member] = None

\* C2: when the member id, a role the member holds or the destination channel
\* is on its ignore list, the event makes no create, move or delete call,
\* also when the channel is over its capacity and whether or not the member
\* is a VIP.
C2_IgnoredNeverDisconnected ==
    (VoiceHandled /\ OnIgnoreList) => DisconnectCalls = <<>>

C2_Witness ==
    /\ VoiceHandled /\ OnIgnoreList
    /\ vip_enabled /\ OnVipList
    /\ forcelimit_enabled /\ DestinationOverCapacity
    /\ DisconnectCalls = <<>>
    /\ voice[last.member] = last.after

\* C3: with both modules enabled, no event makes a create, move or delete
\* call for a member who is on the VIP member list or holds a VIP role.
C3_VipNeverDisconnected ==
    (VoiceHandled /\ forcelimit_enabled /\ vip_enabled /\ OnVipList)
        => DisconnectCalls = <<>>

\* C4: with ForceLimit enabled and the three ignore lists empty, after every
\* voice-state event of a run of voice events no channel with a non-zero
\* capacity holds more members than its capacity.
AllWithinCapacity ==
    \A c \in Channels :
        user_limit[c] /= 0 => Cardinality({m \in Members : voice[m] = c}) <= user_limit[c]
C5_NoCapacityActionWhenVipDisabled ==
    (VoiceHandled /\ ~vip_enabled) => CapacityCalls = <<>>

C5_Witness ==
    /\ VoiceHandled /\ ~vip_enabled /\ OnVipList
    /\ last.before \in Channels /\ last.after \in Channels
    /\ last.before /= last.after
    /\ CapacityBefore(last.before) /= 0 /\ CapacityBefore(last.after) /= 0
    /\ CapacityCalls = <<>>

\* C6: an event whose source and destination channel are the same makes no
\* user-limit edit, also with the VIP module enabled and a VIP member.
C6_NoCapacityActionWithoutTransition ==
    (VoiceHandled /\ last.before = last.after) => CapacityCalls = <<>>

C6_Witness ==
    /\ VoiceHandled /\ last.before = last.after
    /\ vip_enabled /\ OnVipList
    /\ CapacityBefore(last.after) /= 0
    /\ CapacityCalls = <<>>

\* C7: with the VIP module enabled, a VIP moving from channel X to another
\* channel Y, both with a non-zero capacity, makes exactly the edit of X to
\* capacity(X)-1 and then the edit of Y to capacity(Y)+1.
VipMovesBetweenLimited ==
    /\ VoiceHandled /\ vip_enabled /\ OnVipList
    /\ last.before \in Channels /\ last.after \in Channels
    /\ last.before /= last.after
    /\ CapacityBefore(last.before) /= 0 /\ CapacityBefore(last.after) /= 0
C7_VipMoveLowersThenRaises ==
    VipMovesBetweenLimited
        => CapacityCalls =
               <<[op |-> "edit", a |-> last.before,
                  b |-> CapacityBefore(last.before) - 1],
                 [op |-> "edit", a |-> last.after,
                  b |-> CapacityBefore(last.after) + 1]>>

C7_Witness ==
    /\ VipMovesBetweenLimited
    /\ Len(CapacityCalls) = 2
    /\ user_limit[last.before] = CapacityBefore(last.before) - 1
    /\ user_limit[last.after] = CapacityBefore(last.after) + 1

\* C8: for a side of the transition that is no channel, or a channel of
\* capacity 0, the event makes no user-limit edit of that side and the
\* capacity of that channel stays 0; every edit made is of a side that is a
\* channel of non-zero capacity.
Unlimited(channel) == channel = None \/ CapacityBefore(channel) = 0
C8_NoCapacityActionOnUnlimitedLeg ==
    VoiceHandled =>
        /\ \A leg \in {last.before, last.after} :
               Unlimited(leg) =>
                   /\ \A i \in 1..Len(CapacityCalls) : CapacityCalls[i].a /= leg
                   /\ CapacityRead(leg) = 0
        /\ \A i \in 1..Len(CapacityCalls) :
               /\ CapacityCalls[i].a \in {last.before, last.after}
               /\ ~Unlimited(CapacityCalls[i].a)

C8_Witness ==
    /\ VoiceHandled /\ vip_enabled /\ OnVipList
    /\ last.before \in Channels /\ last.after \in Channels
    /\ last.before /= last.after
    /\ CapacityBefore(last.before) /= 0
    /\ CapacityBefore(last.after) = 0
    /\ Len(CapacityCalls) = 1
    /\ user_limit[last.after] = 0

\* the list a target of the command recorded in hist belongs to
ListKeyOf(kind, target) ==
    IF kind \in {"forcelimit_add", "forcelimit_remove"}
    THEN (IF target \in Roles THEN "role"
          ELSE IF target \in Members THEN "member" ELSE "vc")
    ELSE (IF target \in Roles THEN "vipr" ELSE "vipm")

\* an add of one id ran last, and the id was on its list already
AddedPresentId ==
    /\ hist /= <<>>
    /\ hist[1].kind \in {"forcelimit_add", "vip_add"}
    /\ hist[1].target \in Elems(hist[1].pre[ListKeyOf(hist[1].kind, hist[1].target)])

\* C9: adding an id that is on its list already leaves that list as it was,
\* order and contents, leaves the other four lists as they were, and the
\* command answers "already on list" and ends as every add does.
C9_AddIsIdempotent ==
    AddedPresentId =>
        /\ Lists = hist[1].pre
        /\ out = <<[op |-> "send", a |-> "already", b |-> hist[1].target],
                   [op |-> "send", a |-> "updated", b |-> 0]>>

C9_Witness ==
    /\ AddedPresentId
    /\ Len(Lists[ListKeyOf(hist[1].kind, hist[1].target)]) = 2
    /\ Lists = hist[1].pre

\* a remove of one id ran last, directly after an add of the same id to the
\* same group of lists
AddThenRemove == hist /= <<>> /\ hist[1].undoes
IdWasAbsent ==
    hist[1].target \notin
        Elems(hist[1].start[ListKeyOf(hist[1].kind, hist[1].target)])

\* C10 as claimed: add followed by remove of the same id returns the lists to
\* their state before the add, for every list state and every id.
C10_RoundTripAlways ==
    AddThenRemove => Lists = hist[1].start

\* C10: add followed by remove of the same id returns the five lists to their
\* exact state before the add (same ids in the same order) when the id was
\* not on its list before the add.
C10_RoundTripOfAbsentId ==
    (AddThenRemove /\ IdWasAbsent) => Lists = hist[1].start

C10_Witness ==
    /\ AddThenRemove /\ IdWasAbsent
    /\ Len(hist[1].start[ListKeyOf(hist[1].kind, hist[1].target)]) >= 1
    /\ Lists = hist[1].start


\* the reply of the handler that ran last is the one message text
Replied(text) == out = <<Send(text, None)>>

\* C11: both toggles start disabled; after forcelimit enable ForceLimit is
\* enabled, after forcelimit disable it is disabled, and likewise for VIP; the
\* command replies "now enabled/disabled" when the flag had the other value
\* and "already enabled/disabled" when it had that value; a toggle command
\* leaves the flag of the other module as it was, and a list command or a
\* voice event leaves both flags as they were.
C11_ToggleStateMachine ==
    /\ hist = <<>> => ~forcelimit_enabled /\ ~vip_enabled
    /\ hist /= <<>> =>
         LET was == hist[1]
         IN  /\ was.kind = "forcelimit_enable" =>
                   /\ forcelimit_enabled
                   /\ vip_enabled = was.vip_enabled
                   /\ Replied(IF was.forcelimit_enabled
                              THEN "forcelimit_already_enabled"
                              ELSE "forcelimit_now_enabled")
             /\ was.kind = "forcelimit_disable" =>
                   /\ ~forcelimit_enabled
                   /\ vip_enabled = was.vip_enabled
                   /\ Replied(IF was.forcelimit_enabled
                              THEN "forcelimit_now_disabled"
                              ELSE "forcelimit_already_disabled")
             /\ was.kind = "vip_enable" =>
                   /\ vip_enabled
                   /\ forcelimit_enabled = was.forcelimit_enabled
                   /\ Replied(IF was.vip_enabled THEN "vip_already_enabled"
                              ELSE "vip_now_enabled")
             /\ was.kind = "vip_disable" =>
                   /\ ~vip_enabled
                   /\ forcelimit_enabled = was.forcelimit_enabled
                   /\ Replied(IF was.vip_enabled THEN "vip_now_disabled"
                              ELSE "vip_already_disabled")
             /\ was.kind \in {"list", "voice"} =>
                   /\ forcelimit_enabled = was.forcelimit_enabled
                   /\ vip_enabled = was.vip_enabled

\* vip disable given again while VIP is disabled and ForceLimit is enabled:
\* "already disabled", and ForceLimit stays enabled
C11_Witness ==
    /\ hist /= <<>>
    /\ hist[1].kind = "vip_disable"
    /\ ~hist[1].vip_enabled
    /\ hist[1].forcelimit_enabled
    /\ forcelimit_enabled
    /\ Replied("vip_already_disabled")
    /\ vip_member_list /= <<>>
    /\ \E m \in Members : voice[m] /= None

\* C12: when a run of the listener has ended, by its last line or by an
\* exception of a host call, no temporary channel it created still exists.
C12_TempChannelDeleted == Ended => ~task.temp

\* C14: no run of the listener ends with the exception of a failed channel
\* edit, move or delete: the failure is swallowed and the run goes on to its
\* last line.
C14_HostErrorTolerated ==
    ~(task.pc = "error" /\ task.failed \in {"edit", "move", "delete"})

\* C20: a run of the listener that reached its last line has emitted the
\* host calls computed from the configuration as it was when the run began,
\* whatever commands completed while it was suspended.
C20_SingleConfigSnapshot == task.pc = "done" => task.calls = task.expect

\* both list commands have run to their last line, and the second was
\* invoked while the first was in flight
RaceEnded == (\A r \in Racers : cmds[r].pc = "done") /\ cmds[2].raced

\* the lists two commands leave when the first runs to its end before the
\* second starts
InTurn(first, second, L) ==
    Applied(second.kind, second.targets, Applied(first.kind, first.targets, L))

\* C13: when two list commands whose awaits interleaved have both completed,
\* the five lists are what the two commands leave when run one after the
\* other, in one of the two orders, from the lists held when the first was
\* invoked.
C13_RaceIsSerializable ==
    RaceEnded =>
        \/ Lists = InTurn(cmds[1], cmds[2], cmds[1].base)
        \/ Lists = InTurn(cmds[2], cmds[1], cmds[1].base)

\* C15: when a list command has ended with the exception of a failed write to
\* the store, the five lists of the store are what they were when the command
\* was invoked.
C15_NoPartialMutation ==
    \A r \in Racers : cmds[r].pc = "failed" => Lists = cmds[r].base

\* the reply of the listing run last is one menu; its embeds
MenuOpened == Len(out) = 1 /\ out[1].op = "menu"
MenuPages == out[1].a

\* the menu has a page, and every field of every page has a value that is
\* not empty
EveryFieldFilled ==
    /\ Len(MenuPages) >= 1
    /\ \A i \in 1..Len(MenuPages) :
           \A k \in 1..Len(MenuPages[i].fields) :
               Len(MenuPages[i].fields[k].value) > 0

\* the field of a category reads "None" on every page
FieldIsNone(k) == \A i \in 1..Len(MenuPages) : MenuPages[i].fields[k].value = NoneText

C17_ForceDisconnectOnlyOverCapacity ==
    (VoiceHandled /\ DisconnectCalls /= <<>>) =>
        /\ forcelimit_enabled
        /\ last.after /= None
        /\ CapacityRead(last.after) /= 0
        /\ last.occupants > CapacityRead(last.after)

\* ForceLimit enabled, nobody ignored, the last member of the guild joins a
\* channel whose capacity is exactly the number of members: no create, move
\* or delete
C17_Witness ==
    /\ VoiceHandled
    /\ forcelimit_enabled
    /\ ~OnIgnoreList
    /\ last.after /= None
    /\ last.before /= last.after
    /\ last.occupants = Cardinality(Members)
    /\ last.occupants = CapacityRead(last.after)
    /\ DisconnectCalls = <<>>

\* C18: a voice-state event whose handling made a create, move or delete call
\* is one in which the member changed channel: source and destination differ.
C18_OnlyNewlyJoinedEjected ==
    (VoiceHandled /\ DisconnectCalls /= <<>>) => last.before /= last.after

\* every user-limit edit of the event was issued before its first create,
\* move or delete
EditsPrecedeDisconnect ==
    \A i, j \in 1..Len(out) :
        (out[i].op = "edit" /\ out[j].op \in {"create", "move", "delete"}) => i < j

\* C19: in a voice-state event handled with both modules enabled, every
\* user-limit edit is issued before any create, move or delete, and the member
\* is force-disconnected exactly when the destination channel is over the
\* capacity it has after the edits of the VIP step (and nobody is ignored).
C19_VipStepBeforeForcelimitStep ==
    (VoiceHandled /\ vip_enabled /\ forcelimit_enabled) =>
        /\ EditsPrecedeDisconnect
        /\ DisconnectCalls /= <<>> <=> (DestinationOverCapacity /\ ~OnIgnoreList)

\* a VIP enters a limited channel that already holds two members over its
\* limit: the limit is raised by one first, the channel is still over it, and
\* the VIP is disconnected
C19_Witness ==
    /\ VoiceHandled
    /\ vip_enabled
    /\ forcelimit_enabled
    /\ OnVipList
    /\ last.after /= None
    /\ CapacityRead(last.after) = CapacityBefore(last.after) + 1
    /\ CapacityCalls /= <<>>
    /\ DisconnectCalls /= <<>>

\* C21: no user-limit edit made by the listener sets a limit to 0 or below:
\* a channel that has a limit is never made unlimited by a VIP leaving it.
C21_VipNeverUnlimits ==
    VoiceHandled =>
        \A i \in 1..Len(CapacityCalls) : CapacityCalls[i].b > 0

\* no id occurs twice on the list
NoDuplicate(lst) ==
    \A i, j \in 1..Len(lst) : i /= j => lst[i] /= lst[j]

\* a remove of one id ran last
RemovedOneId ==
    /\ hist /= <<>>
    /\ hist[1].kind \in {"forcelimit_remove", "vip_remove"}

\* C22: after any sequence of add and remove commands, each with any targets
\* (the same target twice included), none of the five lists holds an id twice,
\* and after a remove of one id that id is not on its list.
C22_NoDuplicateIds ==
    /\ \A k \in DOMAIN Lists : NoDuplicate(Lists[k])
    /\ RemovedOneId =>
         hist[1].target \notin Elems(Lists[ListKeyOf(hist[1].kind, hist[1].target)])

\* forcelimit ignore given member 1 twice in one invocation while no list
\* holds an id: the second mention is answered "already on ignore list" and
\* the member list holds the id once
C22_Witness ==
    /\ hist = <<>>
    /\ out = <<Send("already", 1), Send("updated", 0)>>
    /\ forcelimit_ignore_member_list = <<1>>
    /\ Listed = 1

\* the run of the listener in flight handles an event the forced disconnect
\* caused: into the temporary channel or out of it
HandlesFollowUp ==
    /\ task.pc /= "idle"
    /\ \/ task.after = TempChannel
       \/ task.before = TempChannel /\ task.after = None

\* the run of the listener in flight has made a create, move or delete call
Disconnecting ==
    \E i \in 1..Len(task.calls) : task.calls[i].op \in {"create", "move", "delete"}

\* C23: no run of the listener that handles a follow-up event of a forced
\* disconnect makes a create, move or delete call; and whenever a run has
\* created the temporary channel for a member, eventually that member is in no
\* channel and the temporary channel is gone.
C23_ForcedDisconnectTerminates ==
    /\ [](HandlesFollowUp => ~Disconnecting)
    /\ \A m \in Members \cup Bystanders :
           (task.pc = "move" /\ task.member = m)
               ~> (voice[m] = None /\ ~task.temp)
====